---- MODULE Spec2Model ----
(***************************************************************************)
(* bom-d-van/binpacking: the Pack entry point of src/binpacking.go (the    *)
(* variant with the pack helper), modelled as a state machine.  One call   *)
(* of Pack is one behaviour: the items are sorted, then the outer loop     *)
(* picks a box, runs pack on it and commits the box.  pack is run one loop *)
(* iteration per step; its activations are kept on the stack `frames`      *)
(* (the top-level call, and above it the speculative re-pack of an         *)
(* escalation).                                                            *)
(***************************************************************************)
EXTENDS Integers, Sequences, FiniteSets

VARIABLES
    input,      \* the caller's slice of items (Pack sorts it in place)
    notPacked,  \* Pack's notPacked slice
    boxes,      \* Pack's result boxes
    err,        \* Pack's err result is non-nil
    pc,         \* position in Pack: "sort", "loop", "pack", "done"
    frames      \* activations of pack, the innermost last

vars == <<input, notPacked, boxes, err, pc, frames>>

(***************************************************************************)
(* Bounds of the model and the item shapes the inputs are drawn from.      *)
(***************************************************************************)
MaxItems == 3

Shapes ==
    { <<1, 200, 2>>,        \* odd extents, seated rotated in Box1
      <<1, 2, 1>>,          \* a small odd item
      <<400, 10, 10>>,      \* fits Box9 and Box10 only
      <<470, 10, 10>>,      \* fits Box9 only, not Box12
      <<1000, 1, 1>>,       \* fits no template
      <<220, 160, 100>>,    \* fills Box1
      <<465, 350, 370>> }   \* fills Box12

\* The items of TestPack, in its input order.
TestPackItems ==
    << <<20, 100, 30>>, <<100, 20, 30>>, <<20, 100, 30>>, <<100, 20, 30>>,
       <<100, 20, 30>>, <<100, 100, 30>>, <<100, 100, 30>> >>

Inputs == (UNION {[1..n -> Shapes] : n \in 0..MaxItems}) \cup {TestPackItems}

\* The shapes of the termination check: between them they reach every step
\* of Pack and pack.
LiveShapes ==
    { <<470, 10, 10>>, <<1000, 1, 1>>, <<220, 160, 100>>, <<465, 350, 370>> }

LiveInputs == UNION {[1..n -> LiveShapes] : n \in 0..MaxItems}

(***************************************************************************)
(* The catalog and the types.                                              *)
(***************************************************************************)
BoxSamples ==
    << [Name |-> "Box1",  Width |-> 220, Height |-> 160, Depth |-> 100, Weight |-> 110, Items |-> <<>>],
       [Name |-> "Box2",  Width |-> 260, Height |-> 145, Depth |-> 145, Weight |-> 120, Items |-> <<>>],
       [Name |-> "Box3",  Width |-> 270, Height |-> 185, Depth |-> 110, Weight |-> 140, Items |-> <<>>],
       [Name |-> "Box4",  Width |-> 310, Height |-> 220, Depth |-> 140, Weight |-> 210, Items |-> <<>>],
       [Name |-> "Box5",  Width |-> 300, Height |-> 210, Depth |-> 200, Weight |-> 250, Items |-> <<>>],
       [Name |-> "Box6",  Width |-> 300, Height |-> 300, Depth |-> 130, Weight |-> 290, Items |-> <<>>],
       [Name |-> "Box7",  Width |-> 370, Height |-> 270, Depth |-> 150, Weight |-> 300, Items |-> <<>>],
       [Name |-> "Box8",  Width |-> 300, Height |-> 300, Depth |-> 250, Weight |-> 360, Items |-> <<>>],
       [Name |-> "Box9",  Width |-> 470, Height |-> 280, Depth |-> 210, Weight |-> 400, Items |-> <<>>],
       [Name |-> "Box10", Width |-> 430, Height |-> 315, Depth |-> 200, Weight |-> 430, Items |-> <<>>],
       [Name |-> "Box11", Width |-> 330, Height |-> 330, Depth |-> 350, Weight |-> 500, Items |-> <<>>],
       [Name |-> "Box12", Width |-> 465, Height |-> 350, Depth |-> 370, Weight |-> 650, Items |-> <<>>] >>

\* Box{}: the zero value, returned when no template qualifies.
ZeroBox == [Name |-> "", Width |-> 0, Height |-> 0, Depth |-> 0, Weight |-> 0, Items |-> <<>>]

RT1 == 0
RT2 == 1
RT3 == 2
RT4 == 3
RT5 == 4
RT6 == 5

\* An Item of the caller: its place in the input and its accessors.
MkItem(i, s) == [id |-> i, w |-> s[1], h |-> s[2], d |-> s[3]]
GetWidth(it) == it.w
GetHeight(it) == it.h
GetDepth(it) == it.d

Box_volume(b) == b.Width * b.Height * b.Depth
IsValid(b) == Box_volume(b) # 0

\* Positions and extents are 0-indexed in the source; Go index i is i+1 here.
Dimensions(bi) ==
    CASE bi.RType = RT1 -> <<GetWidth(bi.Item), GetHeight(bi.Item), GetDepth(bi.Item)>>
      [] bi.RType = RT2 -> <<GetHeight(bi.Item), GetWidth(bi.Item), GetDepth(bi.Item)>>
      [] bi.RType = RT3 -> <<GetHeight(bi.Item), GetDepth(bi.Item), GetWidth(bi.Item)>>
      [] bi.RType = RT4 -> <<GetDepth(bi.Item), GetHeight(bi.Item), GetWidth(bi.Item)>>
      [] bi.RType = RT5 -> <<GetDepth(bi.Item), GetWidth(bi.Item), GetHeight(bi.Item)>>
      [] bi.RType = RT6 -> <<GetWidth(bi.Item), GetDepth(bi.Item), GetHeight(bi.Item)>>

Abs(n) == IF n < 0 THEN -n ELSE n

\* intersect: the rectangle test on centres, with Go's truncating division.
intersect(o1, o2, x1, y1, x2, y2) ==
    LET centerx1 == o1[1] + (x1 \div 2)
        centery1 == o1[2] + (y1 \div 2)
        centerx2 == o2[1] + (x2 \div 2)
        centery2 == o2[2] + (y2 \div 2)
        x == Abs(centerx1 - centerx2)
        y == Abs(centery1 - centery2)
    IN  x < ((x1 + x2) \div 2) /\ y < ((y1 + y2) \div 2)

BoxItem_intersect(bi1, bi2) ==
    LET d1 == Dimensions(bi1)
        d2 == Dimensions(bi2)
    IN  /\ intersect(<<bi1.Pos[1], bi1.Pos[2]>>, <<bi2.Pos[1], bi2.Pos[2]>>, d1[1], d1[2], d2[1], d2[2])
        /\ intersect(<<bi1.Pos[2], bi1.Pos[3]>>, <<bi2.Pos[2], bi2.Pos[3]>>, d1[2], d1[3], d2[2], d2[3])
        /\ intersect(<<bi1.Pos[1], bi1.Pos[3]>>, <<bi2.Pos[1], bi2.Pos[3]>>, d1[1], d1[3], d2[1], d2[3])

nonBoxItems(b) == [i \in 1..Len(b.Items) |-> b.Items[i].Item]

(***************************************************************************)
(* Box.place: rotations in order; a rotation outside the box is skipped,   *)
(* the first rotation inside the box decides (seated, or a collision ends  *)
(* the attempt).  The result is <<fit, the box afterwards>>.               *)
(***************************************************************************)
\* Box.place with the depth left out of the boundary check.
RECURSIVE placeFromNoDepth(_, _, _, _)
placeFromNoDepth(b, item, pos, i) ==
    IF i >= 6 THEN <<FALSE, b>>
    ELSE LET bi == [Item |-> item, Pos |-> pos, RType |-> i]
             d  == Dimensions(bi)
         IN  IF b.Width < pos[1] + d[1] \/ b.Height < pos[2] + d[2]
             THEN placeFromNoDepth(b, item, pos, i + 1)
             ELSE IF \E k \in 1..Len(b.Items) : BoxItem_intersect(b.Items[k], bi)
                  THEN <<FALSE, b>>
                  ELSE <<TRUE, [b EXCEPT !.Items = Append(@, bi)]>>

RECURSIVE placeFrom(_, _, _, _)
placeFrom(b, item, pos, i) ==
    IF i >= 6 THEN <<FALSE, b>>
    ELSE LET bi == [Item |-> item, Pos |-> pos, RType |-> i]
             d  == Dimensions(bi)
         IN  IF b.Width < pos[1] + d[1] \/ b.Height < pos[2] + d[2] \/ b.Depth < pos[3] + d[3]
             THEN placeFrom(b, item, pos, i + 1)
             ELSE IF \E k \in 1..Len(b.Items) : BoxItem_intersect(b.Items[k], bi)
                  THEN <<FALSE, b>>
                  ELSE <<TRUE, [b EXCEPT !.Items = Append(@, bi)]>>

place(b, item, pos) == placeFrom(b, item, pos, 0)

Origin == <<0, 0, 0>>

\* pickBox with the scan stopping one template short.
RECURSIVE pickBoxFromShort(_, _)
pickBoxFromShort(item, n) ==
    IF n >= Len(BoxSamples) THEN ZeroBox
    ELSE IF place(BoxSamples[n], item, Origin)[1]
         THEN [BoxSamples[n] EXCEPT !.Items = <<>>]
         ELSE pickBoxFromShort(item, n + 1)

RECURSIVE pickBoxFrom(_, _)
pickBoxFrom(item, n) ==
    IF n > Len(BoxSamples) THEN ZeroBox
    ELSE IF place(BoxSamples[n], item, Origin)[1]
         THEN [BoxSamples[n] EXCEPT !.Items = <<>>]
         ELSE pickBoxFrom(item, n + 1)

pickBox(item) == pickBoxFrom(item, 1)

\* getBiggerBox accepting a template of equal volume.
RECURSIVE getBiggerBoxFromGe(_, _)
getBiggerBoxFromGe(v, n) ==
    IF n > Len(BoxSamples) THEN ZeroBox
    ELSE IF Box_volume(BoxSamples[n]) >= v THEN BoxSamples[n]
         ELSE getBiggerBoxFromGe(v, n + 1)

RECURSIVE getBiggerBoxFrom(_, _)
getBiggerBoxFrom(v, n) ==
    IF n > Len(BoxSamples) THEN ZeroBox
    ELSE IF Box_volume(BoxSamples[n]) > v THEN BoxSamples[n]
         ELSE getBiggerBoxFrom(v, n + 1)

getBiggerBox(box) == getBiggerBoxFrom(Box_volume(box), 1)

\* The candidate position of pack's switch on p (0: width, 1: height, 2: depth).
anchor(binItem, p) ==
    CASE p = 0 -> <<binItem.Pos[1] + GetWidth(binItem.Item), binItem.Pos[2], binItem.Pos[3]>>
      [] p = 1 -> <<binItem.Pos[1], binItem.Pos[2] + GetHeight(binItem.Item), binItem.Pos[3]>>
      [] p = 2 -> <<binItem.Pos[1], binItem.Pos[2], binItem.Pos[3] + GetDepth(binItem.Item)>>

\* The lookup loops of pack: p outermost, the placed items innermost, the
\* first successful place wins.  <<fitted, the box afterwards>>.
RECURSIVE lookupFrom(_, _, _, _)
lookupFrom(bin, item, p, j) ==
    IF p >= 3 THEN <<FALSE, bin>>
    ELSE IF j > Len(bin.Items) THEN lookupFrom(bin, item, p + 1, 1)
    ELSE LET r == place(bin, item, anchor(bin.Items[j], p))
         IN  IF r[1] THEN r ELSE lookupFrom(bin, item, p, j + 1)

lookup(bin, item) == lookupFrom(bin, item, 0, 1)

(***************************************************************************)
(* sort.Sort(Items(notPacked)): any permutation in which no element is     *)
(* Less than one before it; the order of equal volumes is not fixed.       *)
(***************************************************************************)
Less(a, b) == GetWidth(a) * GetHeight(a) * GetDepth(a) > GetWidth(b) * GetHeight(b) * GetDepth(b)

RECURSIVE SortOrders(_)
SortOrders(S) ==
    IF S = {} THEN {<<>>}
    ELSE UNION { { <<a>> \o t : t \in SortOrders(S \ {a}) } :
                 a \in {x \in S : \A y \in S : ~Less(y, x)} }

\* The caller's slice for a sequence of shapes: each item knows its place in it.
ItemsOf(shapes) == [i \in 1..Len(shapes) |-> MkItem(i, shapes[i])]

Range(s) == {s[i] : i \in 1..Len(s)}

(***************************************************************************)
(* State machine.                                                          *)
(***************************************************************************)
Frame(bin, toPack, replaceBin) ==
    [currentBin |-> bin, toPack |-> toPack, k |-> 1, notPacked |-> <<>>,
     replaceBin |-> replaceBin]

Top == frames[Len(frames)]
SetTop(f) == [frames EXCEPT ![Len(frames)] = f]
Returned(f) == f.k > Len(f.toPack)

InitWith(shapeSeqs) ==
    /\ input \in {ItemsOf(shapes) : shapes \in shapeSeqs}
    /\ notPacked = <<>>
    /\ boxes = <<>>
    /\ err = FALSE
    /\ pc = "sort"
    /\ frames = <<>>

Init == InitWith(Inputs)

InitLive == InitWith(LiveInputs)

\* Pack, line 495: notPacked is the caller's slice, sorted in place.
Sort ==
    /\ pc = "sort"
    /\ notPacked' \in SortOrders(Range(input))
    /\ input' = notPacked'
    /\ pc' = "loop"
    /\ UNCHANGED <<boxes, err, frames>>

\* Pack, lines 496-512: a box for the leading item, and the call of pack.
PickBox ==
    /\ pc = "loop"
    /\ Len(notPacked) > 0
    /\ IsValid(pickBox(notPacked[1]))
    /\ frames' = <<Frame(pickBox(notPacked[1]), notPacked, TRUE)>>
    /\ pc' = "pack"
    /\ UNCHANGED <<input, notPacked, boxes, err>>

\* Pack, lines 501-510: no template holds the leading item.
ItemTooBig ==
    /\ pc = "loop"
    /\ Len(notPacked) > 0
    /\ ~IsValid(pickBox(notPacked[1]))
    /\ err' = TRUE
    /\ pc' = "done"
    /\ UNCHANGED <<input, notPacked, boxes, frames>>

\* Pack, lines 496 and 519: nothing left.
Finish ==
    /\ pc = "loop"
    /\ Len(notPacked) = 0
    /\ pc' = "done"
    /\ UNCHANGED <<input, notPacked, boxes, err, frames>>

\* pack, line 523: the first item is seated at the origin.
PlaceFirst ==
    /\ pc = "pack"
    /\ Top.k = 1
    /\ LET r == place(Top.currentBin, Top.toPack[1], Origin)
       IN  /\ r[1]
           /\ frames' = SetTop([Top EXCEPT !.currentBin = r[2], !.k = 2])
    /\ UNCHANGED <<input, notPacked, boxes, err, pc>>

\* pack, lines 523-527: the first item does not fit; pack again on the next
\* bigger template.
FirstBigger ==
    /\ pc = "pack"
    /\ Top.k = 1
    /\ ~place(Top.currentBin, Top.toPack[1], Origin)[1]
    /\ IsValid(getBiggerBox(Top.currentBin))
    /\ frames' = SetTop([Top EXCEPT !.currentBin = getBiggerBox(Top.currentBin)])
    /\ UNCHANGED <<input, notPacked, boxes, err, pc>>

\* pack, lines 523-529: the first item does not fit and no bigger template
\* exists; everything is returned.
FirstGiveUp ==
    /\ pc = "pack"
    /\ Top.k = 1
    /\ ~place(Top.currentBin, Top.toPack[1], Origin)[1]
    /\ ~IsValid(getBiggerBox(Top.currentBin))
    /\ frames' = SetTop([Top EXCEPT !.notPacked = Top.toPack, !.k = Len(Top.toPack) + 1])
    /\ UNCHANGED <<input, notPacked, boxes, err, pc>>

\* pack, lines 532-552: the next item is seated at the first anchor that takes it.
SeatItem ==
    /\ pc = "pack"
    /\ Top.k > 1
    /\ ~Returned(Top)
    /\ LET r == lookup(Top.currentBin, Top.toPack[Top.k])
       IN  /\ r[1]
           /\ frames' = SetTop([Top EXCEPT !.currentBin = r[2], !.k = @ + 1])
    /\ UNCHANGED <<input, notPacked, boxes, err, pc>>

\* pack, lines 553-556: no anchor takes the item; the re-pack into the next
\* bigger template begins.
Escalate ==
    /\ pc = "pack"
    /\ Top.k > 1
    /\ ~Returned(Top)
    /\ ~lookup(Top.currentBin, Top.toPack[Top.k])[1]
    /\ Top.replaceBin
    /\ IsValid(getBiggerBox(Top.currentBin))
    /\ frames' = Append(frames,
                        Frame(getBiggerBox(Top.currentBin),
                              Append(nonBoxItems(Top.currentBin), Top.toPack[Top.k]),
                              FALSE))
    /\ UNCHANGED <<input, notPacked, boxes, err, pc>>

\* The deferral without the append to notPacked.
DeferDrop ==
    /\ pc = "pack"
    /\ Top.k > 1
    /\ ~Returned(Top)
    /\ ~lookup(Top.currentBin, Top.toPack[Top.k])[1]
    /\ ~(Top.replaceBin /\ IsValid(getBiggerBox(Top.currentBin)))
    /\ frames' = SetTop([Top EXCEPT !.k = @ + 1])
    /\ UNCHANGED <<input, notPacked, boxes, err, pc>>

\* pack, lines 553-567: no anchor takes the item and no re-pack can be tried.
Defer ==
    /\ pc = "pack"
    /\ Top.k > 1
    /\ ~Returned(Top)
    /\ ~lookup(Top.currentBin, Top.toPack[Top.k])[1]
    /\ ~(Top.replaceBin /\ IsValid(getBiggerBox(Top.currentBin)))
    /\ frames' = SetTop([Top EXCEPT !.notPacked = Append(@, Top.toPack[Top.k]), !.k = @ + 1])
    /\ UNCHANGED <<input, notPacked, boxes, err, pc>>

\* The commit of a re-pack without the test on what it left over.
EscalateCommitAlways ==
    /\ pc = "pack"
    /\ Len(frames) = 2
    /\ Returned(Top)
    /\ frames' = <<[frames[1] EXCEPT !.currentBin = Top.currentBin, !.k = @ + 1]>>
    /\ UNCHANGED <<input, notPacked, boxes, err, pc>>

\* pack, lines 556-561: the re-pack left nothing over; its box becomes the
\* working box.
EscalateCommit ==
    /\ pc = "pack"
    /\ Len(frames) = 2
    /\ Returned(Top)
    /\ Len(Top.notPacked) = 0
    /\ frames' = <<[frames[1] EXCEPT !.currentBin = Top.currentBin, !.k = @ + 1]>>
    /\ UNCHANGED <<input, notPacked, boxes, err, pc>>

\* pack, lines 555-557: the re-pack left items over; the next bigger
\* template (counted from the box the re-pack ended with) is tried.
EscalateNext ==
    /\ pc = "pack"
    /\ Len(frames) = 2
    /\ Returned(Top)
    /\ Len(Top.notPacked) # 0
    /\ IsValid(getBiggerBox(Top.currentBin))
    /\ frames' = SetTop(Frame(getBiggerBox(Top.currentBin),
                              Append(nonBoxItems(frames[1].currentBin), frames[1].toPack[frames[1].k]),
                              FALSE))
    /\ UNCHANGED <<input, notPacked, boxes, err, pc>>

\* pack, lines 555-567: no template took them all; the item is deferred.
EscalateFail ==
    /\ pc = "pack"
    /\ Len(frames) = 2
    /\ Returned(Top)
    /\ Len(Top.notPacked) # 0
    /\ ~IsValid(getBiggerBox(Top.currentBin))
    /\ frames' = <<[frames[1] EXCEPT !.notPacked = Append(@, frames[1].toPack[frames[1].k]),
                                     !.k = @ + 1]>>
    /\ UNCHANGED <<input, notPacked, boxes, err, pc>>

\* Pack, lines 512-516: pack returned; the box is committed if it holds an item.
Commit ==
    /\ pc = "pack"
    /\ Len(frames) = 1
    /\ Returned(Top)
    /\ notPacked' = Top.notPacked
    /\ boxes' = IF Len(Top.currentBin.Items) > 0 THEN Append(boxes, Top.currentBin) ELSE boxes
    /\ frames' = <<>>
    /\ pc' = "loop"
    /\ UNCHANGED <<input, err>>

Next ==
    \/ Sort
    \/ PickBox
    \/ ItemTooBig
    \/ Finish
    \/ PlaceFirst
    \/ FirstBigger
    \/ FirstGiveUp
    \/ SeatItem
    \/ Escalate
    \/ Defer
    \/ EscalateCommit
    \/ EscalateNext
    \/ EscalateFail
    \/ Commit

Spec == Init /\ [][Next]_vars

\* Pack is one sequential computation: a step that can be taken is taken.
FairSpec == InitLive /\ [][Next]_vars /\ WF_vars(Next)

(***************************************************************************)
(* Properties.                                                             *)
(***************************************************************************)
\* Every box of the computation: the committed ones and the working ones.
AllBoxes == Range(boxes) \cup {frames[i].currentBin : i \in 1..Len(frames)}

\* Two placed items share a region of positive volume.
Overlap3D(p, q) ==
    LET dp == Dimensions(p)
        dq == Dimensions(q)
    IN  \A i \in 1..3 : p.Pos[i] < q.Pos[i] + dq[i] /\ q.Pos[i] < p.Pos[i] + dp[i]

\* C1: in every committed box and in every working box, no two placed items
\* intersect with positive volume.
NonOverlap ==
    \A b \in AllBoxes : \A i, j \in 1..Len(b.Items) :
        i < j => ~Overlap3D(b.Items[i], b.Items[j])

\* C2: every placed item lies inside its box on each of the three axes,
\* in every working box (a box put in place by an escalation included) and
\* in every committed box.
InBounds ==
    \A b \in AllBoxes : \A i \in 1..Len(b.Items) :
        LET bi == b.Items[i]
            d  == Dimensions(bi)
        IN  /\ bi.Pos[1] + d[1] <= b.Width
            /\ bi.Pos[2] + d[2] <= b.Height
            /\ bi.Pos[3] + d[3] <= b.Depth

\* A box whose template is not the one picked for its first item: an
\* escalation replaced it.
Escalated(b) == Len(b.Items) >= 2 /\ b.Name # pickBox(b.Items[1].Item).Name

\* A committed box that went through an escalation and holds a rotated item.
InBoundsWitness ==
    \E b \in Range(boxes) :
        Escalated(b) /\ \E i \in 1..Len(b.Items) : b.Items[i].RType # RT1

\* The places of the result: <<box, index in the box>>.
Slots == UNION { {<<n, j>> : j \in 1..Len(boxes[n].Items)} : n \in 1..Len(boxes) }

\* C3: when Pack returns without error, every input item is placed in
\* exactly one place of the returned boxes, and nothing else is placed.
Conservation ==
    (pc = "done" /\ ~err) =>
        /\ \A it \in Range(input) :
               Cardinality({s \in Slots : boxes[s[1]].Items[s[2]].Item = it}) = 1
        /\ \A s \in Slots : boxes[s[1]].Items[s[2]].Item \in Range(input)

\* A successful run that deferred an item to a later box and escalated a box.
ConservationWitness ==
    /\ pc = "done"
    /\ ~err
    /\ Len(boxes) >= 2
    /\ \E b \in Range(boxes) : Escalated(b)

\* The item, alone at the origin, is inside the template in some rotation.
FitsAlone(it, tpl) ==
    \E r \in {RT1, RT2, RT3, RT4, RT5, RT6} :
        LET d == Dimensions([Item |-> it, Pos |-> Origin, RType |-> r])
        IN  d[1] <= tpl.Width /\ d[2] <= tpl.Height /\ d[3] <= tpl.Depth

\* C4: the template picked for a fresh box has the least volume among the
\* templates that can hold the leading item alone.
SmallestFit ==
    (pc = "pack" /\ Len(frames) = 1 /\ frames[1].k = 1) =>
        \A n \in 1..Len(BoxSamples) :
            FitsAlone(frames[1].toPack[1], BoxSamples[n]) =>
                Box_volume(frames[1].currentBin) <= Box_volume(BoxSamples[n])

\* C5: when Pack returns an error, it returns no box.
ErrorNoBoxes == (pc = "done" /\ err) => boxes = <<>>

\* C6 as stated: Pack returns an error exactly when some input item does
\* not fit the largest template, Box12, alone.
ErrorIffNotInLargest ==
    pc = "done" =>
        (err <=> \E it \in Range(input) : ~FitsAlone(it, BoxSamples[12]))

\* C6 as amended: Pack returns an error exactly when some input item fits
\* none of the templates alone.
ErrorIffNoTemplate ==
    pc = "done" =>
        (err <=> \E it \in Range(input) :
                     \A n \in 1..Len(BoxSamples) : ~FitsAlone(it, BoxSamples[n]))

\* The error arises in a later iteration, for an item that was deferred.
ErrorWitness == pc = "done" /\ err /\ boxes # <<>>

\* A step of an outer iteration: the leading item is seated at the origin of
\* the box pickBox selected, and pack returns a shorter batch.
ProgressStep ==
    /\ (pc = "pack" /\ Len(frames) = 1 /\ frames[1].k = 1) =>
           /\ frames'[1].k = 2
           /\ frames'[1].currentBin.Name = pickBox(notPacked[1]).Name
           /\ Len(frames'[1].currentBin.Items) = 1
           /\ frames'[1].currentBin.Items[1].Item = notPacked[1]
           /\ frames'[1].currentBin.Items[1].Pos = Origin
    /\ (pc = "pack" /\ pc' = "loop") => Len(notPacked') < Len(notPacked)

\* C7: every outer iteration seats its leading item and shortens the batch,
\* and Pack (with every loop inside pack) terminates.
Progress == [][ProgressStep]_vars /\ <>(pc = "done")

\* An outer iteration has returned a shorter, non-empty batch.
ProgressWitness ==
    pc = "loop" /\ boxes # <<>> /\ notPacked # <<>> /\ Len(notPacked) < Len(input)

\* The sort left items of equal volume in the order of the input.
InputOrderOnTies ==
    \A i, j \in 1..Len(input) :
        (i < j /\ ~Less(input[i], input[j])) => input[i].id < input[j].id

IsTestPack == {[id |-> it.id, s |-> <<it.w, it.h, it.d>>] : it \in Range(input)}
              = {[id |-> i, s |-> TestPackItems[i]] : i \in 1..Len(TestPackItems)}

TestPackWant ==
    << [BoxSamples[1] EXCEPT !.Items =
          << [Item |-> MkItem(6, TestPackItems[6]), Pos |-> <<0, 0, 0>>,     RType |-> RT1],
             [Item |-> MkItem(7, TestPackItems[7]), Pos |-> <<100, 0, 0>>,   RType |-> RT1],
             [Item |-> MkItem(1, TestPackItems[1]), Pos |-> <<200, 0, 0>>,   RType |-> RT1],
             [Item |-> MkItem(2, TestPackItems[2]), Pos |-> <<0, 100, 0>>,   RType |-> RT1],
             [Item |-> MkItem(3, TestPackItems[3]), Pos |-> <<100, 100, 0>>, RType |-> RT2],
             [Item |-> MkItem(4, TestPackItems[4]), Pos |-> <<200, 100, 0>>, RType |-> RT3],
             [Item |-> MkItem(5, TestPackItems[5]), Pos |-> <<0, 120, 0>>,   RType |-> RT1] >>] >>

\* C8: on the seven items of TestPack, Pack returns no error and exactly the
\* one Box1 with the seven placements of the test, items of equal volume
\* being placed in input order.
TestPackExact ==
    (pc = "done" /\ IsTestPack) => (~err /\ boxes = TestPackWant)

\* What holds of the scenario: the result is the test's whenever the sort
\* left items of equal volume in input order.
TestPackOnInputOrder ==
    (pc = "done" /\ IsTestPack /\ InputOrderOnTies) => (~err /\ boxes = TestPackWant)

\* The items a box holds, each with the number of places it has in the box.
Holds(b, S) ==
    /\ Len(b.Items) = Cardinality(S)
    /\ {b.Items[i].Item : i \in 1..Len(b.Items)} = S

\* A step of the top-level fill, seen on the working box.
EscalationStep ==
    (Len(frames) >= 1 /\ Len(frames') >= 1) =>
        LET old  == frames[1]
            new  == frames'[1]
        IN  IF Len(frames) = 2 /\ Len(frames') = 1
            THEN \* the re-pack for the item old.toPack[old.k] has ended
                 LET item == old.toPack[old.k]
                 IN  \/ /\ new.currentBin.Name # old.currentBin.Name
                        /\ \E n \in 1..Len(BoxSamples) :
                               new.currentBin = [BoxSamples[n] EXCEPT !.Items = new.currentBin.Items]
                        /\ Box_volume(new.currentBin) > Box_volume(old.currentBin)
                        /\ Holds(new.currentBin, Range(nonBoxItems(old.currentBin)) \cup {item})
                        /\ Len(new.currentBin.Items) = Len(old.currentBin.Items) + 1
                        /\ frames[2].notPacked = <<>>
                        /\ new.notPacked = old.notPacked
                     \/ /\ new.currentBin = old.currentBin
                        /\ frames[2].notPacked # <<>>
                        /\ ~IsValid(getBiggerBox(frames[2].currentBin))
                        /\ new.notPacked = Append(old.notPacked, item)
            ELSE \* any other step keeps the template and the items seated so far
                 /\ new.currentBin.Name = old.currentBin.Name
                 /\ Len(new.currentBin.Items) >= Len(old.currentBin.Items)
                 /\ \A i \in 1..Len(old.currentBin.Items) :
                        new.currentBin.Items[i] = old.currentBin.Items[i]

\* C9: the working box of a top-level fill is replaced only by a template of
\* strictly greater volume holding every item seated so far plus the failing
\* item, each once; otherwise box and placements are unchanged and the
\* failing item is returned as unpacked.
EscalationAllOrNothing == [][EscalationStep]_vars

\* A working box that an escalation put in place, during the fill.
EscalationWitness ==
    pc = "pack" /\ Len(frames) = 1 /\ Escalated(frames[1].currentBin)

\* C10: every anchor tried for a subsequent item is the placed item's
\* position moved along one axis by the placed item's rotated extent on
\* that axis.
AnchorOnFace ==
    \A n \in 1..Len(frames) :
        (frames[n].k > 1 /\ ~Returned(frames[n])) =>
            \A i \in 1..Len(frames[n].currentBin.Items) : \A p \in 0..2 :
                LET binItem == frames[n].currentBin.Items[i]
                IN  anchor(binItem, p) =
                        [binItem.Pos EXCEPT ![p + 1] = @ + Dimensions(binItem)[p + 1]]

====
